---------------------------- MODULE Spec2Model ----------------------------
(***************************************************************************)
(* A model of data_cleaning/pure_id_tools.py: the encoding-robust CSV      *)
(* reader (read_csv_any_encoding), the text normaliser (norm), the column  *)
(* classifier (pick_column, detect_columns), the identifier counter        *)
(* (count_distinct_pure_ids) and the name resolver (find_pure_ids_by_name).*)
(*                                                                         *)
(* A Python str is a sequence of characters.  An ASCII character is the    *)
(* one-character string itself ("a", " "); every other character is named  *)
(* by its code point ("U+00E9").  Python's None is a value distinct from   *)
(* every str.                                                              *)
(***************************************************************************)
EXTENDS Naturals, Sequences, FiniteSets

\* ------------------------------------------------------------------ bounds
\* Longest input string handed to norm.
MaxLen == 3
\* Most header names in a table handed to detect_columns.
MaxCols == 3
\* Most rows in a table handed to find_pure_ids_by_name.
MaxRows == 2
\* Most rows in a table handed to count_distinct_pure_ids.
MaxCountRows == 5
\* Most bytes in a file handed to read_csv_any_encoding.
MaxBytes == 3

\* ----------------------------------------------------------------- values
None == <<"None">>

\* Python truthiness of an optional str: None and "" are falsy.
Truthy(x) == x # None /\ x # <<>>

\* All sequences over S of length at most n.
SeqsUpTo(S, n) == UNION {[1..k -> S] : k \in 0..n}

Min(S) == CHOOSE x \in S : \A y \in S : x <= y

RECURSIVE Concat(_)
\* The concatenation of a sequence of sequences.
Concat(ss) == IF ss = <<>> THEN <<>> ELSE Head(ss) \o Concat(Tail(ss))

\* ------------------------------------------------------------- characters
UpperCase == <<"A","B","C","D","E","F","G","H","I","J","K","L","M",
               "N","O","P","Q","R","S","T","U","V","W","X","Y","Z">>
LowerCase == <<"a","b","c","d","e","f","g","h","i","j","k","l","m",
               "n","o","p","q","r","s","t","u","v","w","x","y","z">>

\* str.lower() of one character (ASCII letters; the other characters of the
\* model have no lowercase form).
LowerChar(c) ==
    IF \E i \in 1..26 : UpperCase[i] = c
    THEN LowerCase[CHOOSE i \in 1..26 : UpperCase[i] = c]
    ELSE c

\* str.isspace(): space, tab, newline, NO-BREAK SPACE.  The regex class \s
\* on a str pattern is the same set.
IsSpace(c) == c \in {" ", "\t", "\n", "U+00A0"}

\* re word characters (\w): letters, digits, underscore.
IsWordChar(c) ==
    \/ \E i \in 1..26 : UpperCase[i] = c \/ LowerCase[i] = c
    \/ c \in {"0","1","2","3","4","5","6","7","8","9","_"}
    \/ c \in {"U+00E9", "U+00DF", "U+212A"}

\* unicodedata.normalize("NFKD", c) of one character: U+00E9 (e with acute)
\* decomposes canonically to e + U+0301, U+00A0 (NO-BREAK SPACE) has the
\* compatibility decomposition SPACE, U+212A (KELVIN SIGN) decomposes to K.
NfkdChar(c) ==
    CASE c = "U+00E9" -> <<"e", "U+0301">>
      [] c = "U+00A0" -> <<" ">>
      [] c = "U+212A" -> <<"K">>
      [] OTHER -> <<c>>

\* unicodedata.combining(c) # 0: U+0301 (COMBINING ACUTE ACCENT, class 230).
Combining(c) == c = "U+0301"

\* str.casefold() of one character: U+00DF (sharp s) folds to "ss".
CasefoldChar(c) == IF c = "U+00DF" THEN <<"s", "s">> ELSE <<LowerChar(c)>>

\* ------------------------------------------------------------------- norm
\* unicodedata.normalize("NFKD", s)
Nfkd(s) == Concat([i \in 1..Len(s) |-> NfkdChar(s[i])])

NotCombining(c) == ~Combining(c)
\* "".join(ch for ch in s if not unicodedata.combining(ch))
StripCombining(s) == SelectSeq(s, NotCombining)

RECURSIVE CollapseWs(_)
\* re.sub(r"\s+", " ", s): every maximal run of whitespace becomes one space.
CollapseWs(s) ==
    IF s = <<>> THEN <<>>
    ELSE IF IsSpace(Head(s))
         THEN IF Len(s) > 1 /\ IsSpace(s[2])
              THEN CollapseWs(Tail(s))
              ELSE <<" ">> \o CollapseWs(Tail(s))
         ELSE <<Head(s)>> \o CollapseWs(Tail(s))

RECURSIVE LStrip(_)
LStrip(s) == IF s # <<>> /\ IsSpace(Head(s)) THEN LStrip(Tail(s)) ELSE s
RECURSIVE RStrip(_)
RStrip(s) ==
    IF s # <<>> /\ IsSpace(s[Len(s)]) THEN RStrip(SubSeq(s, 1, Len(s) - 1)) ELSE s
\* str.strip()
Strip(s) == RStrip(LStrip(s))

\* str.casefold()
Casefold(s) == Concat([i \in 1..Len(s) |-> CasefoldChar(s[i])])

\* The order of steps changed: whitespace is collapsed and trimmed before the
\* combining marks are removed.
normCollapseFirst(s) ==
    IF s = None THEN <<>>
    ELSE Casefold(StripCombining(Strip(CollapseWs(Nfkd(s)))))

norm(s) ==
    IF s = None THEN <<>>
    ELSE Casefold(Strip(CollapseWs(StripCombining(Nfkd(s)))))

\* ------------------------------------------------- regular expressions
\* A pattern is a sequence of atoms; re.IGNORECASE is built into Lit and Opt,
\* whose characters are written in lower case as in the source patterns.
Lit(s) == [t |-> "lit", s |-> s]       \* the characters of s
Opt(s) == [t |-> "opt", s |-> s]       \* (?:s)?
WB == [t |-> "wb", s |-> <<>>]         \* \b
BOL == [t |-> "bol", s |-> <<>>]       \* ^
EOL == [t |-> "eol", s |-> <<>>]       \* $
AnyStar == [t |-> "any*", s |-> <<>>]  \* .*
WsStar == [t |-> "ws*", s |-> <<>>]    \* \s*
OptSep == [t |-> "sep?", s |-> <<>>]   \* [_\s-]?

\* h[i..] starts with the characters of s, letter case ignored.
LitAt(s, h, i) ==
    /\ i + Len(s) - 1 <= Len(h)
    /\ \A j \in 1..Len(s) : LowerChar(h[i + j - 1]) = s[j]

\* \b at position i: exactly one of h[i-1], h[i] is a word character.
WordBoundary(h, i) ==
    LET before == i > 1 /\ IsWordChar(h[i - 1])
        after == i <= Len(h) /\ IsWordChar(h[i])
    IN before # after

RECURSIVE MatchAt(_, _, _, _)
\* The atoms rx[k..] match h from position i on (re's backtracking search for
\* some way to match).
MatchAt(rx, k, h, i) ==
    IF k > Len(rx) THEN TRUE
    ELSE LET a == rx[k] IN
      CASE a.t = "lit" -> LitAt(a.s, h, i) /\ MatchAt(rx, k + 1, h, i + Len(a.s))
        [] a.t = "opt" -> \/ LitAt(a.s, h, i) /\ MatchAt(rx, k + 1, h, i + Len(a.s))
                          \/ MatchAt(rx, k + 1, h, i)
        [] a.t = "wb" -> WordBoundary(h, i) /\ MatchAt(rx, k + 1, h, i)
        [] a.t = "bol" -> i = 1 /\ MatchAt(rx, k + 1, h, i)
        [] a.t = "eol" -> /\ \/ i = Len(h) + 1
                             \/ i = Len(h) /\ h[i] = "\n"
                          /\ MatchAt(rx, k + 1, h, i)
        [] a.t = "any*" -> \E j \in i..(Len(h) + 1) :
                              /\ \A m \in i..(j - 1) : h[m] # "\n"
                              /\ MatchAt(rx, k + 1, h, j)
        [] a.t = "ws*" -> \E j \in i..(Len(h) + 1) :
                              /\ \A m \in i..(j - 1) : IsSpace(h[m])
                              /\ MatchAt(rx, k + 1, h, j)
        [] a.t = "sep?" -> \/ /\ i <= Len(h)
                              /\ (h[i] \in {"_", "-"} \/ IsSpace(h[i]))
                              /\ MatchAt(rx, k + 1, h, i + 1)
                           \/ MatchAt(rx, k + 1, h, i)

\* rx.search(c): the pattern matches somewhere in c.
Search(rx, h) == \E i \in 1..(Len(h) + 1) : MatchAt(rx, 1, h, i)

\* ------------------------------------------------------ column classifier
\* The loops exchanged: the first header that matches any rule wins.
pick_columnHeaderFirst(cols, rules) ==
    LET hits == {i \in 1..Len(cols) :
                    \E r \in 1..Len(rules) : Search(rules[r], cols[i])}
    IN IF hits # {} THEN cols[Min(hits)] ELSE None

RECURSIVE pick_column(_, _)
pick_column(cols, rules) ==
    IF rules = <<>> THEN None
    ELSE LET hits == {i \in 1..Len(cols) : Search(Head(rules), cols[i])}
         IN IF hits # {} THEN cols[Min(hits)]
            ELSE pick_column(cols, Tail(rules))

w_pure == <<"p","u","r","e">>
w_id == <<"i","d">>
w_person == <<"p","e","r","s","o","n">>
w_pure_person_id == <<"p","u","r","e"," ","p","e","r","s","o","n"," ","i","d">>
w_first == <<"f","i","r","s","t">>
w_last == <<"l","a","s","t">>
w_name == <<"n","a","m","e">>
w_paren_s == <<"(","s",")">>
w_given == <<"g","i","v","e","n">>
w_forename == <<"f","o","r","e","n","a","m","e">>
w_preferred == <<"p","r","e","f","e","r","r","e","d">>
w_family == <<"f","a","m","i","l","y">>
w_surname == <<"s","u","r","n","a","m","e">>
w_display == <<"d","i","s","p","l","a","y">>
w_full == <<"f","u","l","l">>

\* r"\bpure\b.*\bid\b", r"\bid\b.*\bpure\b",
\* r"^pure[_\s-]?id$", r"^person[_\s-]?id$", r"^pure person id$"
PureRules == <<
    <<WB, Lit(w_pure), WB, AnyStar, WB, Lit(w_id), WB>>,
    <<WB, Lit(w_id), WB, AnyStar, WB, Lit(w_pure), WB>>,
    <<BOL, Lit(w_pure), OptSep, Lit(w_id), EOL>>,
    <<BOL, Lit(w_person), OptSep, Lit(w_id), EOL>>,
    <<BOL, Lit(w_pure_person_id), EOL>> >>

\* The first rule without its optional "(s)" group.
FirstRulesNoParen == <<
    <<BOL, Lit(w_first), WsStar, Lit(w_name), EOL>>,
    <<WB, Lit(w_given), WB, AnyStar, WB, Lit(w_name), WB>>,
    <<WB, Lit(w_forename), WB>>,
    <<WB, Lit(w_preferred), WsStar, Lit(w_name), WB>> >>

\* r"^first\s*name(?:\(s\))?$",
\* r"\bgiven\b.*\bname\b", r"\bforename\b", r"\bpreferred\s*name\b"
FirstRules == <<
    <<BOL, Lit(w_first), WsStar, Lit(w_name), Opt(w_paren_s), EOL>>,
    <<WB, Lit(w_given), WB, AnyStar, WB, Lit(w_name), WB>>,
    <<WB, Lit(w_forename), WB>>,
    <<WB, Lit(w_preferred), WsStar, Lit(w_name), WB>> >>

\* r"^last\s*name(?:\(s\))?$", r"\bfamily\b.*\bname\b", r"\bsurname\b"
LastRules == <<
    <<BOL, Lit(w_last), WsStar, Lit(w_name), Opt(w_paren_s), EOL>>,
    <<WB, Lit(w_family), WB, AnyStar, WB, Lit(w_name), WB>>,
    <<WB, Lit(w_surname), WB>> >>

\* r"^name$", r"\bperson\b.*\bname\b", r"\bdisplay\s*name\b", r"\bfull\s*name\b"
NameRules == <<
    <<BOL, Lit(w_name), EOL>>,
    <<WB, Lit(w_person), WB, AnyStar, WB, Lit(w_name), WB>>,
    <<WB, Lit(w_display), WsStar, Lit(w_name), WB>>,
    <<WB, Lit(w_full), WsStar, Lit(w_name), WB>> >>

\* (pure_col, first_col, last_col, name_col) of a header.
detect_columns(cols) ==
    [pure_col |-> pick_column(cols, PureRules),
     first_col |-> pick_column(cols, FirstRules),
     last_col |-> pick_column(cols, LastRules),
     name_col |-> pick_column(cols, NameRules)]

\* ----------------------------------------------------------------- tables
\* A DataFrame read with dtype=str and keep_default_na=False: the column
\* names in order and the rows, each a sequence of str cells aligned with the
\* column names.
HasColumn(df, col) == \E i \in 1..Len(df.columns) : df.columns[i] = col

\* df[col]: the cells of column col, row by row.
Column(df, col) ==
    LET i == Min({j \in 1..Len(df.columns) : df.columns[j] = col})
    IN [r \in 1..Len(df.rows) |-> df.rows[r][i]]

\* a in b for two str values.
Contains(a, b) ==
    \E i \in 1..(Len(b) - Len(a) + 1) : SubSeq(b, i, i + Len(a) - 1) = a

\* The full name of every row, and the columns read to build it; exc is
\* "KeyError" when a column that is read is not a column of df.
build_fullname_series(df, first_col, last_col, name_col) ==
    IF Truthy(first_col) /\ Truthy(last_col)
    THEN IF ~HasColumn(df, first_col)
         THEN [exc |-> "KeyError", full |-> <<>>, reads |-> {first_col}]
         ELSE IF ~HasColumn(df, last_col)
         THEN [exc |-> "KeyError", full |-> <<>>, reads |-> {first_col, last_col}]
         ELSE [exc |-> "none",
               full |-> [r \in 1..Len(df.rows) |->
                           Strip(Column(df, first_col)[r] \o <<" ">>
                                 \o Column(df, last_col)[r])],
               reads |-> {first_col, last_col}]
    ELSE IF Truthy(name_col)
    THEN IF ~HasColumn(df, name_col)
         THEN [exc |-> "KeyError", full |-> <<>>, reads |-> {name_col}]
         ELSE [exc |-> "none", full |-> Column(df, name_col), reads |-> {name_col}]
    ELSE [exc |-> "none", full |-> [r \in 1..Len(df.rows) |-> <<>>], reads |-> {}]

\* The cells are counted before they are trimmed.
count_distinct_pure_idsNoStrip(df, pure_col) ==
    IF ~Truthy(pure_col) THEN [exc |-> "none", value |-> 0, reads |-> {}]
    ELSE IF ~HasColumn(df, pure_col)
    THEN [exc |-> "KeyError", value |-> 0, reads |-> {pure_col}]
    ELSE LET ids == {Column(df, pure_col)[r] : r \in 1..Len(df.rows)} \ {<<>>}
         IN [exc |-> "none", value |-> Cardinality(ids), reads |-> {pure_col}]

count_distinct_pure_ids(df, pure_col) ==
    IF ~Truthy(pure_col) THEN [exc |-> "none", value |-> 0, reads |-> {}]
    ELSE IF ~HasColumn(df, pure_col)
    THEN [exc |-> "KeyError", value |-> 0, reads |-> {pure_col}]
    ELSE LET ids == {Strip(Column(df, pure_col)[r]) : r \in 1..Len(df.rows)} \ {<<>>}
         IN [exc |-> "none", value |-> Cardinality(ids), reads |-> {pure_col}]

\* "or" for "and" in the substring test.
NameMaskEither(cand, target_first, target_last, contains) ==
    IF contains
    THEN Contains(target_first, cand) \/ Contains(target_last, cand)
    ELSE LET a == Strip(target_first \o <<" ">> \o target_last)
             b == Strip(target_last \o <<" ">> \o target_first)
         IN cand \in {a, b}

\* The exact test without the swapped order.
NameMaskFirstLast(cand, target_first, target_last, contains) ==
    IF contains
    THEN Contains(target_first, cand) /\ Contains(target_last, cand)
    ELSE cand = Strip(target_first \o <<" ">> \o target_last)

\* The row mask of find_pure_ids_by_name: cand is the normalised full name of
\* a row.
NameMask(cand, target_first, target_last, contains) ==
    IF contains
    THEN Contains(target_first, cand) /\ Contains(target_last, cand)
    ELSE LET a == Strip(target_first \o <<" ">> \o target_last)
             b == Strip(target_last \o <<" ">> \o target_first)
         IN cand \in {a, b}

\* Without the early return for an unresolved identifier column.
find_pure_ids_by_nameNoGuard(df, pure_col, first_col, last_col, name_col, first, last, contains) ==
    LET built == build_fullname_series(df, first_col, last_col, name_col)
    IN IF built.exc # "none"
       THEN [exc |-> built.exc, value |-> {}, reads |-> built.reads]
       ELSE [exc |-> "KeyError", value |-> {}, reads |-> built.reads \cup {pure_col}]

find_pure_ids_by_name(df, pure_col, first_col, last_col, name_col, first, last, contains) ==
    IF ~Truthy(pure_col) THEN [exc |-> "none", value |-> {}, reads |-> {}]
    ELSE
      LET built == build_fullname_series(df, first_col, last_col, name_col)
          target_first == norm(first)
          target_last == norm(last)
      IN IF built.exc # "none"
         THEN [exc |-> built.exc, value |-> {}, reads |-> built.reads]
         ELSE IF ~HasColumn(df, pure_col)
         THEN [exc |-> "KeyError", value |-> {}, reads |-> built.reads \cup {pure_col}]
         ELSE
           LET mask == {r \in 1..Len(df.rows) :
                          NameMask(norm(built.full[r]), target_first, target_last,
                                   contains)}
               ids == {Strip(Column(df, pure_col)[r]) : r \in mask} \ {<<>>}
           IN [exc |-> "none", value |-> ids, reads |-> built.reads \cup {pure_col}]

\* ----------------------------------------------------------------- loader
\* A file is a sequence of bytes.  The bytes of the model: the ASCII bytes
\* "a", ",", "\n" and "\"" (named by their character), and 0xE9 and 0x81.
\* 0xE9 0x81 0x81 is the UTF-8 encoding of U+9041; any other occurrence of
\* 0xE9 or 0x81 is invalid UTF-8.
HighBytes == {"0xE9", "0x81"}

RECURSIVE DecodeUtf8(_)
\* bytes.decode("utf-8", errors="replace"): a well-formed sequence decodes to
\* its character, a maximal ill-formed prefix to one U+FFFD.
DecodeUtf8(b) ==
    IF b = <<>> THEN <<>>
    ELSE IF Head(b) = "0xE9"
    THEN IF Len(b) >= 3 /\ b[2] = "0x81" /\ b[3] = "0x81"
         THEN <<"U+9041">> \o DecodeUtf8(SubSeq(b, 4, Len(b)))
         ELSE IF Len(b) >= 2 /\ b[2] = "0x81"
         THEN <<"U+FFFD">> \o DecodeUtf8(SubSeq(b, 3, Len(b)))
         ELSE <<"U+FFFD">> \o DecodeUtf8(Tail(b))
    ELSE IF Head(b) = "0x81" THEN <<"U+FFFD">> \o DecodeUtf8(Tail(b))
    ELSE <<Head(b)>> \o DecodeUtf8(Tail(b))

\* One byte under a single-byte code page; "" when the code page does not
\* define the byte.
DecodeByte(c, enc) ==
    IF c \notin HighBytes THEN c
    ELSE CASE enc = "cp1252" -> IF c = "0xE9" THEN "U+00E9" ELSE ""
           [] enc \in {"latin1", "iso-8859-1"} ->
                IF c = "0xE9" THEN "U+00E9" ELSE "U+0081"
           [] enc = "mac_roman" -> IF c = "0xE9" THEN "U+00C8" ELSE "U+00C5"
           [] OTHER -> ""

\* Strict decoding of the file under encoding enc: ok is FALSE where Python
\* raises UnicodeDecodeError.  The files of the model hold no byte-order mark,
\* so "utf-8-sig" decodes as "utf-8" does.
Decode(b, enc) ==
    IF enc \in {"utf-8-sig", "utf-8", "utf_8"}
    THEN LET text == DecodeUtf8(b)
         IN [ok |-> \A i \in 1..Len(text) : text[i] # "U+FFFD", text |-> text]
    ELSE LET text == [i \in 1..Len(b) |-> DecodeByte(b[i], enc)]
         IN [ok |-> \A i \in 1..Len(text) : text[i] # "", text |-> text]

\* The tokenizer shared by pandas' two engines (delimiter ",", quote "\"",
\* doubled quotes): one step of its state machine.  st.mode is its state,
\* st.field the field being read, st.rec the fields of the record being read
\* and st.recs the records read; a line without any character gives no record.
EndField(st) == [st EXCEPT !.rec = Append(st.rec, st.field), !.field = <<>>]
EndRecord(st) ==
    [st EXCEPT !.recs = Append(st.recs, Append(st.rec, st.field)),
               !.rec = <<>>, !.field = <<>>, !.mode = "start_record"]
AddChar(st, c, mode) == [st EXCEPT !.field = Append(st.field, c), !.mode = mode]

TokStep(st, c) ==
    CASE st.mode = "start_record" /\ c = "\n" -> st
      [] st.mode \in {"start_record", "start_field"} /\ c # "\n" ->
           IF c = "\"" THEN [st EXCEPT !.mode = "in_quoted"]
           ELSE IF c = "," THEN [EndField(st) EXCEPT !.mode = "start_field"]
           ELSE AddChar(st, c, "in_field")
      [] st.mode = "start_field" /\ c = "\n" -> EndRecord(st)
      [] st.mode = "in_field" ->
           IF c = "\n" THEN EndRecord(st)
           ELSE IF c = "," THEN [EndField(st) EXCEPT !.mode = "start_field"]
           ELSE AddChar(st, c, "in_field")
      [] st.mode = "in_quoted" ->
           IF c = "\"" THEN [st EXCEPT !.mode = "quote_in_quoted"]
           ELSE AddChar(st, c, "in_quoted")
      [] st.mode = "quote_in_quoted" ->
           IF c = "\"" THEN AddChar(st, c, "in_quoted")
           ELSE IF c = "\n" THEN EndRecord(st)
           ELSE IF c = "," THEN [EndField(st) EXCEPT !.mode = "start_field"]
           ELSE AddChar(st, c, "in_field")

RECURSIVE TokRun(_, _)
TokRun(st, text) == IF text = <<>> THEN st ELSE TokRun(TokStep(st, Head(text)), Tail(text))

\* The records of a text and whether the text ends inside a quoted field; the
\* record being read at the end of the text is closed.
Tokenize(text) ==
    LET st == TokRun([mode |-> "start_record", field |-> <<>>, rec |-> <<>>,
                      recs |-> <<>>], text)
    IN [records |-> IF st.mode = "start_record" THEN st.recs ELSE EndRecord(st).recs,
        eof_in_quote |-> st.mode = "in_quoted"]

\* The Python engine drops a record of one field that is empty once trimmed
\* (skip_blank_lines); the C engine drops only lines without any character.
BlankRecord(rec) == Len(rec) = 1 /\ Strip(rec[1]) = <<>>
NotBlankRecord(rec) == ~BlankRecord(rec)

\* Cells missing at the end of a short row are "" (keep_default_na=False).
PadRow(rec, n) == [i \in 1..n |-> IF i <= Len(rec) THEN rec[i] ELSE <<>>]

NoTable == [columns |-> <<>>, rows |-> <<>>]

\* pd.read_csv(StringIO(text), dtype=str, engine=engine, on_bad_lines="skip",
\* keep_default_na=False): the first record is the header; a later record with
\* more fields than the header is skipped.  exc: "EmptyDataError" when there
\* is no header record, "ParserError" when the C engine meets the end of the
\* text inside a quoted field.  (Index inference from a longer first data row
\* is left out.)
Parse(text, engine) ==
    LET tok == Tokenize(text)
        recs == IF engine = "python" THEN SelectSeq(tok.records, NotBlankRecord)
                ELSE tok.records
    IN IF engine = "c" /\ tok.eof_in_quote
       THEN [exc |-> "ParserError", table |-> NoTable]
       ELSE IF recs = <<>>
       THEN [exc |-> "EmptyDataError", table |-> NoTable]
       ELSE LET n == Len(Head(recs))
                fits(rec) == Len(rec) <= n
                kept == SelectSeq(Tail(recs), fits)
            IN [exc |-> "none",
                table |-> [columns |-> Head(recs),
                           rows |-> [r \in 1..Len(kept) |-> PadRow(kept[r], n)]]]

\* The file is decoded under the encoding, then parsed by the engine; either
\* step may raise.
_try_read_csv(bytes, encoding, engine) ==
    LET dec == Decode(bytes, encoding)
    IN IF ~dec.ok THEN [exc |-> "UnicodeDecodeError", table |-> NoTable]
       ELSE Parse(dec.text, engine)

\* What the charset detector may answer: nothing (the string "None" names no
\* encoding), or an encoding name.
DetectorAnswers == {"None", "ascii", "utf_8"}

\* "utf-8-sig", "utf-8", "cp1252", "latin1", "iso-8859-1", "mac_roman"
Fallbacks == <<"utf-8-sig", "utf-8", "cp1252", "latin1", "iso-8859-1", "mac_roman">>

Candidates(detected) ==
    (IF detected # "None" THEN <<detected>> ELSE <<>>) \o Fallbacks

Engines == <<"c", "python">>

\* The loops exchanged: every engine is tried on an encoding before the next
\* encoding is tried.
NextAttemptEncodingFirst(eng, enc, n) ==
    IF eng < Len(Engines) THEN [more |-> TRUE, eng |-> eng + 1, enc |-> enc]
    ELSE IF enc < n THEN [more |-> TRUE, eng |-> 1, enc |-> enc + 1]
    ELSE [more |-> FALSE, eng |-> eng, enc |-> enc]

\* The attempt after attempt (engine eng, candidate enc) of
\*   for engine in ("c", "python"): for enc in candidates: ...
\* with n candidates; more is FALSE after the last one.
NextAttempt(eng, enc, n) ==
    IF enc < n THEN [more |-> TRUE, eng |-> eng, enc |-> enc + 1]
    ELSE IF eng < Len(Engines) THEN [more |-> TRUE, eng |-> eng + 1, enc |-> 1]
    ELSE [more |-> FALSE, eng |-> eng, enc |-> enc]

\* ----------------------------------------------------------------- inputs
\* Header names.  HdrOther matches no rule and is a column of no table.
HdrPureId == <<"P", "u", "r", "e", " ", "I", "D">>
HdrPersonId == <<"p", "e", "r", "s", "o", "n", "_", "i", "d">>
HdrFirstNameS == <<"F", "i", "r", "s", "t", " ", "n", "a", "m", "e", "(", "s", ")">>
HdrFirstNames == <<"F", "i", "r", "s", "t", " ", "n", "a", "m", "e", "s">>
HdrFirstname == <<"f", "i", "r", "s", "t", "n", "a", "m", "e">>
HdrGivenName == <<"G", "i", "v", "e", "n", " ", "n", "a", "m", "e">>
HdrLastName == <<"L", "a", "s", "t", " ", "n", "a", "m", "e">>
HdrSurname == <<"S", "u", "r", "n", "a", "m", "e">>
HdrName == <<"N", "a", "m", "e">>
HdrFullName == <<"F", "u", "l", "l", " ", "n", "a", "m", "e">>
HdrOther == <<"O", "t", "h", "e", "r">>
HeaderPool == {HdrPureId, HdrPersonId, HdrFirstNameS, HdrFirstNames, HdrFirstname,
               HdrGivenName, HdrLastName, HdrSurname, HdrName, HdrFullName}

\* The characters of the strings handed to norm.
NormChars == {"a", "A", " ", "\t", "U+00E9", "U+0301", "U+00DF", "U+00A0", "U+212A"}

\* Rows of a table with the columns Pure ID, First name(s), Last name, Name.
ResolverColumns == <<HdrPureId, HdrFirstNameS, HdrLastName, HdrName>>
RowPool == {
    <<<<"P", "1">>,
      <<"J", "a", "n", "e">>,
      <<"D", "o", "e">>,
      <<"D", "o", "e", " ", "J", "a", "n", "e">>>>,
    <<<<" ", "P", "2">>,
      <<"J", "a", "n", "e", "t">>,
      <<"D", "o", "e", "r", "i", "n", "g">>,
      <<"J", "a", "n", "e", " ", "D", "o", "e", "r", "i", "n", "g">>>>,
    <<<<>>,
      <<"J", "a", "n", "e">>,
      <<"D", "o", "e">>,
      <<"J", "a", "n", "e", " ", "D", "o", "e">>>>,
    <<<<"P", "3", " ">>,
      <<"J", "a", "n", "U+00E9">>,
      <<"D", "O", "E">>,
      <<"j", "a", "n", "U+00E9", " ", " ", "d", "o", "e">>>>,
    <<<<" ", " ">>,
      <<"J", "a", "n", "e">>,
      <<"D", "o", "e">>,
      <<"J", "a", "n", "e", " ", "D", "o", "e">>>>}

\* The target names handed to find_pure_ids_by_name.
TargetFirsts == {<<"J", "a", "n", "e">>, <<"J", "a", "n", "e", "t">>, <<>>}
TargetLasts == {<<" ", "D", "O", "E">>, <<"D", "o", "e", "r", "i", "n", "g">>, <<>>}

\* A column role: unresolved, a column of the table, or (from a command-line
\* override) a name that is no column of the table.
RoleChoices(col) == {None, col, HdrOther}

\* The cells of an identifier column.
IdPool == {<<"P", "1">>, <<" ", "P", "2">>, <<"P", "2">>, <<>>, <<" ", " ">>}

\* The bytes of a file.
Bytes == {"a", ",", "\n", "\"", "0xE9", "0x81"}

\* ------------------------------------------------------------------ state
VARIABLES
    pc,          \* where the operation under study stands
    fileBytes,   \* read_csv_any_encoding: the bytes of the file at path
    detected,    \* ... its local detected
    candidates,  \* ... its local candidates
    engIdx,      \* ... the position of the outer loop in ("c", "python")
    encIdx,      \* ... the position of the inner loop in candidates
    attempts,    \* ... the (engine, encoding) pairs handed to _try_read_csv
    outcome,     \* ... "running", "returned" or "raised", with the table or exception
    normIn,      \* norm: the argument
    normOut,     \* norm(normIn)
    normAgain,   \* norm(norm(normIn))
    cols,        \* detect_columns: list(df.columns)
    roles,       \* detect_columns: the four columns returned
    df,          \* count/find: the table
    args,        \* count/find: the column roles, the target names and contains
    counted,     \* what count_distinct_pure_ids did
    found        \* what find_pure_ids_by_name did

loadVars == <<fileBytes, detected, candidates, engIdx, encIdx, attempts, outcome>>
normVars == <<normIn, normOut, normAgain>>
colVars == <<cols, roles>>
tableVars == <<df, args, counted, found>>
vars == <<pc, loadVars, normVars, colVars, tableVars>>

Running == [status |-> "running", exc |-> "none", table |-> NoTable]
NoRoles == [pure_col |-> None, first_col |-> None, last_col |-> None, name_col |-> None]
NoArgs == [pure_col |-> None, first_col |-> None, last_col |-> None, name_col |-> None,
           first |-> <<>>, last |-> <<>>, contains |-> TRUE]
NotRun == [exc |-> "none", value |-> {}, reads |-> {}]
NotCounted == [exc |-> "none", value |-> 0, reads |-> {}]

LoadIdle ==
    /\ fileBytes = <<>> /\ detected = "None" /\ candidates = <<>>
    /\ engIdx = 1 /\ encIdx = 1 /\ attempts = <<>> /\ outcome = Running
NormIdle == normIn = None /\ normOut = <<>> /\ normAgain = <<>>
ColIdle == cols = <<>> /\ roles = NoRoles
TableIdle == df = NoTable /\ args = NoArgs /\ counted = NotCounted /\ found = NotRun

\* ----------------------------------------------- read_csv_any_encoding
LoadInit ==
    /\ pc = "detect"
    /\ fileBytes \in SeqsUpTo(Bytes, MaxBytes)
    /\ detected = "None" /\ candidates = <<>>
    /\ engIdx = 1 /\ encIdx = 1 /\ attempts = <<>> /\ outcome = Running
    /\ NormIdle /\ ColIdle /\ TableIdle

\* Lines 17-32: charset detection (best effort) and the candidate list.
Detect ==
    /\ pc = "detect"
    /\ \E d \in DetectorAnswers :
          /\ detected' = d
          /\ candidates' = Candidates(d)
    /\ pc' = "loop"
    /\ UNCHANGED <<fileBytes, engIdx, encIdx, attempts, outcome>>
    /\ UNCHANGED <<normVars, colVars, tableVars>>

\* Lines 33-38: one pass of the inner loop body: return the table of this
\* attempt, or on any exception go on to the next attempt.
Attempt ==
    /\ pc = "loop" /\ outcome.status = "running"
    /\ LET r == _try_read_csv(fileBytes, candidates[encIdx], Engines[engIdx])
           nxt == NextAttempt(engIdx, encIdx, Len(candidates))
       IN /\ attempts' = Append(attempts, <<Engines[engIdx], candidates[encIdx]>>)
          /\ IF r.exc = "none"
             THEN /\ outcome' = [status |-> "returned", exc |-> "none", table |-> r.table]
                  /\ UNCHANGED <<pc, engIdx, encIdx>>
             ELSE /\ engIdx' = nxt.eng
                  /\ encIdx' = nxt.enc
                  /\ pc' = IF nxt.more THEN "loop" ELSE "last_resort"
                  /\ UNCHANGED outcome
    /\ UNCHANGED <<fileBytes, detected, candidates>>
    /\ UNCHANGED <<normVars, colVars, tableVars>>

\* Lines 40-42: decode as UTF-8 with replacement and parse (read_csv's default
\* engine is the C engine).
LastResortRead(bytes) == Parse(DecodeUtf8(bytes), "c")

LastResort ==
    /\ pc = "last_resort" /\ outcome.status = "running"
    /\ LET r == LastResortRead(fileBytes)
       IN outcome' = IF r.exc = "none"
                     THEN [status |-> "returned", exc |-> "none", table |-> r.table]
                     ELSE [status |-> "raised", exc |-> r.exc, table |-> NoTable]
    /\ UNCHANGED <<pc, fileBytes, detected, candidates, engIdx, encIdx, attempts>>
    /\ UNCHANGED <<normVars, colVars, tableVars>>

LoadNext == Detect \/ Attempt \/ LastResort
SpecLoad == LoadInit /\ [][LoadNext]_vars

\* ------------------------------------------------------------------- norm
NormInit ==
    /\ pc = "start"
    /\ normIn \in SeqsUpTo(NormChars, MaxLen) \cup {None}
    /\ normOut = <<>> /\ normAgain = <<>>
    /\ LoadIdle /\ ColIdle /\ TableIdle

\* norm(s)
NormOnce ==
    /\ pc = "start"
    /\ normOut' = norm(normIn)
    /\ pc' = "once"
    /\ UNCHANGED <<normIn, normAgain, loadVars, colVars, tableVars>>

\* norm of the result
NormTwice ==
    /\ pc = "once"
    /\ normAgain' = norm(normOut)
    /\ pc' = "twice"
    /\ UNCHANGED <<normIn, normOut, loadVars, colVars, tableVars>>

NormNext == NormOnce \/ NormTwice
SpecNorm == NormInit /\ [][NormNext]_vars

\* --------------------------------------------------------- detect_columns
\* Headers: sequences of distinct names (read_csv makes column names unique).
Headers ==
    {h \in SeqsUpTo(HeaderPool, MaxCols) :
        \A i, j \in 1..Len(h) : i # j => h[i] # h[j]}

ColInit ==
    /\ pc = "start"
    /\ cols \in Headers
    /\ roles = NoRoles
    /\ LoadIdle /\ NormIdle /\ TableIdle

DetectColumns ==
    /\ pc = "start"
    /\ roles' = detect_columns(cols)
    /\ pc' = "detected"
    /\ UNCHANGED <<cols, loadVars, normVars, tableVars>>

ColNext == DetectColumns
SpecColumns == ColInit /\ [][ColNext]_vars

\* ------------------------------- count_distinct_pure_ids, find_pure_ids_by_name
ResolverTables ==
    {[columns |-> ResolverColumns, rows |-> rows] : rows \in SeqsUpTo(RowPool, MaxRows)}

ResolverArgs ==
    [pure_col : RoleChoices(HdrPureId), first_col : RoleChoices(HdrFirstNameS),
     last_col : RoleChoices(HdrLastName), name_col : RoleChoices(HdrName),
     first : TargetFirsts, last : TargetLasts, contains : BOOLEAN]

ResolveInit ==
    /\ pc = "start"
    /\ df \in ResolverTables
    /\ args \in ResolverArgs
    /\ counted = NotCounted /\ found = NotRun
    /\ LoadIdle /\ NormIdle /\ ColIdle

CountDistinct ==
    /\ pc = "start"
    /\ counted' = count_distinct_pure_ids(df, args.pure_col)
    /\ pc' = "counted"
    /\ UNCHANGED <<df, args, found, loadVars, normVars, colVars>>

FindByName ==
    /\ pc = "start"
    /\ found' = find_pure_ids_by_name(df, args.pure_col, args.first_col, args.last_col,
                                      args.name_col, args.first, args.last, args.contains)
    /\ pc' = "found"
    /\ UNCHANGED <<df, args, counted, loadVars, normVars, colVars>>

ResolveNext == CountDistinct \/ FindByName
SpecResolve == ResolveInit /\ [][ResolveNext]_vars

\* Tables of one identifier column.
CountTables ==
    {[columns |-> <<HdrPureId>>, rows |-> [r \in 1..Len(ids) |-> <<ids[r]>>]] :
        ids \in SeqsUpTo(IdPool, MaxCountRows)}

CountInit ==
    /\ pc = "start"
    /\ df \in CountTables
    /\ args \in {[NoArgs EXCEPT !.pure_col = c] : c \in {None, HdrPureId}}
    /\ counted = NotCounted /\ found = NotRun
    /\ LoadIdle /\ NormIdle /\ ColIdle

CountNext == CountDistinct
SpecCount == CountInit /\ [][CountNext]_vars

\* The whole model: any one of the operations on any of its inputs.
Init == LoadInit \/ NormInit \/ ColInit \/ ResolveInit \/ CountInit
Next == LoadNext \/ NormNext \/ ColNext \/ ResolveNext
Spec == Init /\ [][Next]_vars

\* ================================================================== claims
\* t is c without its leading and trailing whitespace.
IsTrimOf(t, c) ==
    \E i \in 0..Len(c) : \E j \in 0..(Len(c) - i) :
        /\ Len(t) = Len(c) - i - j
        /\ \A k \in 1..i : IsSpace(c[k])
        /\ \A k \in (Len(c) - j + 1)..Len(c) : IsSpace(c[k])
        /\ \A k \in 1..Len(t) : t[k] = c[i + k]
        /\ t # <<>> => ~IsSpace(t[1]) /\ ~IsSpace(t[Len(t)])

\* a occurs in b.
IsSubstringOf(a, b) ==
    \/ a = <<>>
    \/ \E i \in 0..(Len(b) - Len(a)) : \A k \in 1..Len(a) : b[i + k] = a[k]

\* Every slice of a cell of the identifier column (the first column).
IdSlices ==
    UNION {{SubSeq(df.rows[r][1], i, j) : i \in 1..(Len(df.rows[r][1]) + 1),
                                          j \in 0..Len(df.rows[r][1])} :
           r \in 1..Len(df.rows)}

\* ----------------------------------------------------------------- C1
\* C1: read_csv_any_encoding never raises: once every attempt has failed, the
\* last-resort step always returns a table.
C1_NeverRaises == outcome.status # "raised"

\* ----------------------------------------------------------------- C2
ClaimEncodings == <<"utf-8-sig", "utf-8", "cp1252", "latin1", "iso-8859-1", "mac_roman">>
ClaimCandidates ==
    IF detected = "None" THEN ClaimEncodings ELSE <<detected>> \o ClaimEncodings
ClaimOrder ==
    [i \in 1..(2 * Len(ClaimCandidates)) |->
        IF i <= Len(ClaimCandidates) THEN <<"c", ClaimCandidates[i]>>
        ELSE <<"python", ClaimCandidates[i - Len(ClaimCandidates)]>>]
AttemptFails(a) == _try_read_csv(fileBytes, a[2], a[1]).exc # "none"

\* C2: the attempts are made in the fixed order (strict parser with every
\* candidate encoding in list order, then the lenient parser with the same
\* encodings); the table returned is that of the first attempt that succeeds,
\* no attempt follows a success, and the last resort is reached only after
\* every attempt has failed.
C2_AttemptOrder ==
    pc # "detect" =>
      /\ Len(attempts) <= Len(ClaimOrder)
      /\ \A i \in 1..Len(attempts) : attempts[i] = ClaimOrder[i]
      /\ \A i \in 1..(Len(attempts) - 1) : AttemptFails(attempts[i])
      /\ (pc = "loop" /\ outcome.status = "running") =>
            \A i \in 1..Len(attempts) : AttemptFails(attempts[i])
      /\ (pc = "loop" /\ outcome.status = "returned") =>
            /\ attempts # <<>>
            /\ LET a == attempts[Len(attempts)]
               IN /\ ~AttemptFails(a)
                  /\ outcome.table = _try_read_csv(fileBytes, a[2], a[1]).table
      /\ pc = "last_resort" =>
            /\ attempts = ClaimOrder
            /\ \A i \in 1..Len(attempts) : AttemptFails(attempts[i])

\* A file on which every strict attempt fails and a lenient one succeeds.
C2_Witness ==
    /\ pc = "loop" /\ outcome.status = "returned"
    /\ detected = "ascii"
    /\ Len(attempts) > Len(candidates) + 1
    /\ outcome.table.columns # <<>>

\* ----------------------------------------------------------------- C3
\* The header picked for a role under the claim's reading: the first header
\* (in header order) that matches the earliest rule with any matching header.
PickedByClaim(picked, header, rules) ==
    LET matching == [r \in 1..Len(rules) |->
                        {i \in 1..Len(header) : Search(rules[r], header[i])}]
        live == {r \in 1..Len(rules) : matching[r] # {}}
    IN /\ picked = None <=> live = {}
       /\ live # {} =>
            \E r \in live :
               /\ \A q \in live : r <= q
               /\ \E i \in matching[r] :
                     /\ \A j \in matching[r] : i <= j
                     /\ picked = header[i]

\* C3: for each role, pick_column returns the first header matching the
\* earliest rule that has any matching header; the role is None exactly when
\* no rule matches any header.
C3_RulePriority ==
    pc = "detected" =>
      /\ PickedByClaim(roles.pure_col, cols, PureRules)
      /\ PickedByClaim(roles.first_col, cols, FirstRules)
      /\ PickedByClaim(roles.last_col, cols, LastRules)
      /\ PickedByClaim(roles.name_col, cols, NameRules)

\* A header matching a later rule stands before the one that is picked.
C3_Witness ==
    /\ pc = "detected"
    /\ cols = <<HdrSurname, HdrPersonId, HdrLastName>>
    /\ roles.last_col = HdrLastName
    /\ roles.pure_col = HdrPersonId
    /\ roles.first_col = None

\* ----------------------------------------------------------------- C4
LowerSeq(h) == [i \in 1..Len(h) |-> LowerChar(h[i])]
w_names == <<"n","a","m","e","s">>

\* h is exactly "<w> name" or "<w> names", in any letter case, optionally
\* followed by "(s)".
ExactNameHeader(h, w) ==
    LowerSeq(h) \in {w \o <<" ">> \o w_name, w \o <<" ">> \o w_names,
                     w \o <<" ">> \o w_name \o w_paren_s,
                     w \o <<" ">> \o w_names \o w_paren_s}

\* C4 as stated: the first-name (last-name) role resolves to a header that is
\* exactly "first name" or "first names" ("last name" or "last names"),
\* optional "(s)", whenever such a header is present.
C4_Original ==
    pc = "detected" =>
      /\ (\E i \in 1..Len(cols) : ExactNameHeader(cols[i], w_first)) =>
            roles.first_col # None /\ ExactNameHeader(roles.first_col, w_first)
      /\ (\E i \in 1..Len(cols) : ExactNameHeader(cols[i], w_last)) =>
            roles.last_col # None /\ ExactNameHeader(roles.last_col, w_last)

\* h is w, any run of whitespace (possibly none), "name", optionally "(s)",
\* optionally one final newline; letter case ignored.
NameFormHeader(h, w) ==
    \E k \in 0..Len(h) : \E tail \in {<<>>, w_paren_s} : \E nl \in {<<>>, <<"\n">>} :
        /\ Len(h) = Len(w) + k + Len(w_name) + Len(tail) + Len(nl)
        /\ \A i \in 1..k : IsSpace(h[Len(w) + i])
        /\ LET body == SubSeq(h, 1, Len(w)) \o SubSeq(h, Len(w) + k + 1, Len(h))
           IN LowerSeq(body) = w \o w_name \o tail \o nl

\* C4, amended: when some header has the form "first", optional whitespace,
\* "name", optional "(s)" (letter case ignored), the first-name role is the
\* first header of that form; likewise "last" for the last-name role.  The
\* plural "first names" is not of that form.
C4_Amended ==
    pc = "detected" =>
      /\ \A i \in 1..Len(cols) :
            (/\ NameFormHeader(cols[i], w_first)
             /\ \A j \in 1..(i - 1) : ~NameFormHeader(cols[j], w_first))
            => roles.first_col = cols[i]
      /\ \A i \in 1..Len(cols) :
            (/\ NameFormHeader(cols[i], w_last)
             /\ \A j \in 1..(i - 1) : ~NameFormHeader(cols[j], w_last))
            => roles.last_col = cols[i]
      /\ ~NameFormHeader(HdrFirstNames, w_first)

\* "First name(s)" is picked although "First names" stands before it.
C4_Witness ==
    /\ pc = "detected"
    /\ cols = <<HdrFirstNames, HdrFirstNameS, HdrLastName>>
    /\ roles.first_col = HdrFirstNameS
    /\ roles.last_col = HdrLastName

\* ------------------------------------------------------------ C5 .. C9
\* Every role is unresolved or names a column of the table.
RolesInTable ==
    \A c \in {args.pure_col, args.first_col, args.last_col, args.name_col} :
        c = None \/ HasColumn(df, c)

\* The normalised full name of row r.
NormFull(r) ==
    norm(build_fullname_series(df, args.first_col, args.last_col, args.name_col).full[r])

\* Row r passes the SUBSTRING policy: both normalised target names occur in
\* its normalised full name.
SubstringRow(r) ==
    /\ IsSubstringOf(norm(args.first), NormFull(r))
    /\ IsSubstringOf(norm(args.last), NormFull(r))

\* Row r passes the EXACT policy: its normalised full name is the normalised
\* target joined "<first> <last>" or "<last> <first>", trimmed.
ExactRow(r) ==
    \/ IsTrimOf(NormFull(r), norm(args.first) \o <<" ">> \o norm(args.last))
    \/ IsTrimOf(NormFull(r), norm(args.last) \o <<" ">> \o norm(args.first))

\* ids is exactly the set of trimmed, non-empty identifiers of the rows that
\* pass.
IdsOfRows(ids, passes(_)) ==
    \A id \in ids \cup IdSlices :
        id \in ids <=>
            /\ id # <<>>
            /\ \E r \in 1..Len(df.rows) : passes(r) /\ IsTrimOf(id, df.rows[r][1])

\* C5: under the SUBSTRING policy with a resolved identifier column the result
\* is exactly the set of trimmed, non-empty identifiers of the rows whose
\* normalised full name contains both normalised target names.
C5_SubstringPolicy ==
    (pc = "found" /\ args.contains /\ args.pure_col = HdrPureId /\ RolesInTable) =>
        /\ found.exc = "none"
        /\ IdsOfRows(found.value, SubstringRow)

\* A row that passes gives its trimmed identifier, a row that fails the
\* last-name check gives nothing.
C5_Witness ==
    /\ pc = "found" /\ args.contains /\ args.pure_col = HdrPureId /\ RolesInTable
    /\ args.first_col = HdrFirstNameS /\ args.last_col = HdrLastName
    /\ args.first = <<"J", "a", "n", "e">>
    /\ args.last = <<"D", "o", "e", "r", "i", "n", "g">>
    /\ Len(df.rows) = 2
    /\ df.rows[1][1] = <<"P", "1">> /\ df.rows[2][1] = <<" ", "P", "2">>
    /\ found.value = {<<"P", "2">>}

\* C6: under the EXACT policy a row matches if and only if its normalised full
\* name equals the normalised target joined "<first> <last>" or
\* "<last> <first>".
C6_ExactPolicy ==
    (pc = "found" /\ ~args.contains /\ args.pure_col = HdrPureId /\ RolesInTable) =>
        /\ found.exc = "none"
        /\ IdsOfRows(found.value, ExactRow)

\* The row "Doe Jane" matches the target Jane / Doe, the row "Jane Doering"
\* does not.
C6_Witness ==
    /\ pc = "found" /\ ~args.contains /\ args.pure_col = HdrPureId
    /\ args.first_col = None /\ args.last_col = None /\ args.name_col = HdrName
    /\ norm(args.first) = <<"j", "a", "n", "e">> /\ norm(args.last) = <<"d", "o", "e">>
    /\ Len(df.rows) = 2
    /\ df.rows[1][4] = <<"D", "o", "e", " ", "J", "a", "n", "e">>
    /\ df.rows[2][4] = <<"J", "a", "n", "e", " ", "D", "o", "e", "r", "i", "n", "g">>
    /\ found.value = {<<"P", "1">>}

\* No name role is usable: not both a first and a last column, and no
\* full-name column.
NoNameRole ==
    /\ ~(Truthy(args.first_col) /\ Truthy(args.last_col))
    /\ ~Truthy(args.name_col)

\* C7: with no usable name role (and the identifier role unresolved or a
\* column of the table) find_pure_ids_by_name returns the empty set without
\* raising, for every table, every target name and both policies.
C7_NoNameRoleNoMatch ==
    (pc = "found" /\ NoNameRole /\ args.pure_col \in {None, HdrPureId}) =>
        found.exc = "none" /\ found.value = {}

\* C8: with the identifier role unresolved count_distinct_pure_ids returns 0
\* and find_pure_ids_by_name the empty set, without raising and without
\* reading any column.
C8_NoIdentifierRole ==
    ~Truthy(args.pure_col) =>
        /\ pc = "counted" =>
              counted.exc = "none" /\ counted.value = 0 /\ counted.reads = {}
        /\ pc = "found" =>
              found.exc = "none" /\ found.value = {} /\ found.reads = {}

\* Rows whose names match the empty target, and name roles that name no
\* column of the table: nothing is read and nothing raised.
C8_Witness ==
    /\ pc = "found" /\ args.pure_col = None
    /\ args.first_col = HdrOther /\ args.last_col = HdrOther /\ args.name_col = HdrOther
    /\ args.first = <<>> /\ args.last = <<>>
    /\ Len(df.rows) = 2
    /\ found.value = {} /\ found.reads = {} /\ found.exc = "none"

\* The identifier cells of the table, row by row.
IdCells == [r \in 1..Len(df.rows) |-> df.rows[r][1]]
SpecExampleIds == << <<"P", "1">>, <<" ", "P", "2">>, <<>>, <<"P", "1">>, <<" ", " ">> >>

\* C9: with a resolved identifier column count_distinct_pure_ids is the number
\* of distinct values left after trimming every cell and dropping the empty
\* ones; the column ["P1", " P2", "", "P1", "  "] counts 2.
C9_CountDistinct ==
    (pc = "counted" /\ args.pure_col = HdrPureId) =>
        /\ counted.exc = "none"
        /\ counted.value =
              Cardinality({id \in IdSlices :
                              /\ id # <<>>
                              /\ \E r \in 1..Len(df.rows) : IsTrimOf(id, IdCells[r])})
        /\ IdCells = SpecExampleIds => counted.value = 2

\* The column of the example, counted.
C9_Witness ==
    /\ pc = "counted" /\ args.pure_col = HdrPureId
    /\ IdCells = SpecExampleIds
    /\ counted.value = 2

\* ---------------------------------------------------------------- C10
\* C10: norm is idempotent, norm(norm(s)) = norm(s), for every string s and
\* for a missing s, which is treated as the empty string.
C10_NormIdempotent ==
    /\ pc = "twice" => normAgain = normOut
    /\ (pc # "start" /\ normIn = None) => normOut = <<>>

\* An input that every step of norm changes.
C10_Witness ==
    /\ pc = "twice"
    /\ normIn = <<"\t", "U+00E9", "U+00DF">>
    /\ normOut = <<"e", "s", "s">>
    /\ normAgain = <<"e", "s", "s">>

=============================================================================
